---- MODULE Spec2Model ----
(***************************************************************************)
(* miniRedis (src/miniRedis.py): the wire codec (ProtocolHandler), the     *)
(* command dispatcher and handlers (Server), the snapshot file             *)
(* (SAVE / RESTORE / MERGE) and the per-connection handler loop.           *)
(*                                                                         *)
(* Bytes are sequences of one-character strings.  A Python value is a      *)
(* record tagged by its type:                                              *)
(*   bytes  [t |-> "bytes", v |-> <<chars>>]                               *)
(*   int    [t |-> "int",   v |-> n]                                       *)
(*   bool   [t |-> "bool",  v |-> TRUE/FALSE]   (a subclass of int)        *)
(*   float  [t |-> "float", v |-> h]            (the number h/2)           *)
(*   Error  [t |-> "error", v |-> <<chars>>]    (the namedtuple, line 32)  *)
(*   list   [t |-> "array", v |-> <<values>>]                              *)
(*   dict   [t |-> "map",   v |-> <<<<key, value>>, ...>>] distinct keys,  *)
(*                                               in insertion order        *)
(*   None   [t |-> "null"]                                                 *)
(***************************************************************************)
EXTENDS Integers, Sequences, FiniteSets, TLC

B(s) == [t |-> "bytes", v |-> s]
I(n) == [t |-> "int", v |-> n]
Bool(b) == [t |-> "bool", v |-> b]
Flt(h) == [t |-> "float", v |-> h]
Err(m) == [t |-> "error", v |-> m]
Arr(s) == [t |-> "array", v |-> s]
Map(s) == [t |-> "map", v |-> s]
Null == [t |-> "null"]

\* The outcome of a call: a returned value or a raised exception.
Ret(v) == [kind |-> "return", val |-> v]
Raise(e) == [kind |-> "raise", exc |-> e]

CR == "\r"
LF == "\n"
CRLF == <<CR, LF>>

----------------------------------------------------------------------------
(* Numbers on the wire *)

Digits == <<"0", "1", "2", "3", "4", "5", "6", "7", "8", "9">>

IsDigit(c) == \E i \in 1..10 : Digits[i] = c

DigitVal(c) == (CHOOSE i \in 1..10 : Digits[i] = c) - 1

RECURSIVE DecOf(_)
DecOf(n) == IF n < 10 THEN <<Digits[n + 1]>>
            ELSE DecOf(n \div 10) \o <<Digits[(n % 10) + 1]>>

\* b'%d' % n for an integer n.
FormatD(n) == IF n < 0 THEN <<"-">> \o DecOf(-n) ELSE DecOf(n)

\* What %d makes of the number: a bool is 0 or 1, a float loses its fraction
\* (truncation toward zero).
NumberForD(x) ==
  CASE x.t = "int" -> x.v
    [] x.t = "bool" -> IF x.v THEN 1 ELSE 0
    [] x.t = "float" -> IF x.v >= 0 THEN x.v \div 2 ELSE -((-x.v) \div 2)

RECURSIVE DigitsValue(_)
DigitsValue(s) == IF s = <<>> THEN 0
                  ELSE 10 * DigitsValue(SubSeq(s, 1, Len(s) - 1)) + DigitVal(s[Len(s)])

IsWhite(c) == c \in {" ", "\t", LF, CR}

RECURSIVE LStripWhite(_)
LStripWhite(s) == IF s # <<>> /\ IsWhite(Head(s)) THEN LStripWhite(Tail(s)) ELSE s

RECURSIVE RStripWhite(_)
RStripWhite(s) == IF s # <<>> /\ IsWhite(s[Len(s)])
                  THEN RStripWhite(SubSeq(s, 1, Len(s) - 1)) ELSE s

\* int(bytes): surrounding whitespace is dropped, one sign is allowed, the rest
\* must be one or more decimal digits; anything else raises ValueError.
ParseInt(line) ==
  LET s == RStripWhite(LStripWhite(line))
      signed == s # <<>> /\ Head(s) \in {"-", "+"}
      body == IF signed THEN Tail(s) ELSE s
  IN IF body # <<>> /\ \A i \in 1..Len(body) : IsDigit(body[i])
     THEN Ret(IF signed /\ Head(s) = "-" THEN -DigitsValue(body) ELSE DigitsValue(body))
     ELSE Raise("ValueError")

----------------------------------------------------------------------------
(* The stream primitives the decoder uses *)

\* socket_file.readline(): up to and including the first LF, or to the end.
Readline(s) ==
  IF \E i \in 1..Len(s) : s[i] = LF
  THEN LET i == CHOOSE j \in 1..Len(s) : s[j] = LF /\ \A k \in 1..(j - 1) : s[k] # LF
       IN [line |-> SubSeq(s, 1, i), rest |-> SubSeq(s, i + 1, Len(s))]
  ELSE [line |-> s, rest |-> <<>>]

\* bytes.rstrip(b'\r\n'): every trailing CR or LF is dropped.
RECURSIVE RStripCRLF(_)
RStripCRLF(s) == IF s # <<>> /\ s[Len(s)] \in {CR, LF}
                 THEN RStripCRLF(SubSeq(s, 1, Len(s) - 1)) ELSE s

\* socket_file.readline().rstrip(b'\r\n')
ReadStrippedLine(s) ==
  LET r == Readline(s) IN [line |-> RStripCRLF(r.line), rest |-> r.rest]

\* socket_file.read(n) on the buffered reader: n >= 0 reads at most n bytes,
\* -1 reads to the end of the stream, anything below raises ValueError.
ReadN(s, n) ==
  IF n < -1 THEN [res |-> Raise("ValueError"), rest |-> s]
  ELSE IF n = -1 \/ n >= Len(s) THEN [res |-> Ret(s), rest |-> <<>>]
  ELSE [res |-> Ret(SubSeq(s, 1, n)), rest |-> SubSeq(s, n + 1, Len(s))]

\* data[:-2]
DropLast2(s) == IF Len(s) <= 2 THEN <<>> ELSE SubSeq(s, 1, Len(s) - 2)

----------------------------------------------------------------------------
(* ProtocolHandler: the decoder *)

Hashable(x) == x.t \notin {"array", "map"}

\* dict(zip(elements[::2], elements[1::2])): a repeated key keeps its first
\* position and takes the later value; a list or dict as key raises TypeError.
RECURSIVE DictPut(_, _, _)
DictPut(pairs, k, x) ==
  IF pairs = <<>> THEN <<<<k, x>>>>
  ELSE IF Head(pairs)[1] = k THEN <<<<k, x>>>> \o Tail(pairs)
  ELSE <<Head(pairs)>> \o DictPut(Tail(pairs), k, x)

RECURSIVE DictZip(_, _)
DictZip(acc, elements) ==
  IF Len(elements) < 2 THEN Ret(Map(acc))
  ELSE IF ~Hashable(elements[1]) THEN Raise("TypeError")
  ELSE DictZip(DictPut(acc, elements[1], elements[2]), Tail(Tail(elements)))

RECURSIVE handle_request(_)
RECURSIVE ReadElements(_, _, _)

\* [self.handle_request(socket_file) for _ in range(n)]: n <= 0 reads nothing;
\* the first exception ends the loop.  (The element read is bound as the one
\* member of a set, so that it is computed once.)
ReadElements(s, n, acc) ==
  IF n <= 0 THEN [res |-> Ret(acc), rest |-> s]
  ELSE LET then(r) == IF r.res.kind = "raise" THEN r
                      ELSE ReadElements(r.rest, n - 1, Append(acc, r.res.val))
       IN CHOOSE out \in {then(r) : r \in {handle_request(s)}} : TRUE

handle_simple_string(s) ==
  LET r == ReadStrippedLine(s) IN [res |-> Ret(B(r.line)), rest |-> r.rest]

handle_error(s) ==
  LET r == ReadStrippedLine(s) IN [res |-> Ret(Err(r.line)), rest |-> r.rest]

handle_integer(s) ==
  LET r == ReadStrippedLine(s)
      n == ParseInt(r.line)
  IN [res |-> IF n.kind = "raise" THEN n ELSE Ret(I(n.val)), rest |-> r.rest]

handle_string(s) ==
  LET r == ReadStrippedLine(s)
      n == ParseInt(r.line)
  IN IF n.kind = "raise" THEN [res |-> n, rest |-> r.rest]
     ELSE IF n.val = -1 THEN [res |-> Ret(Null), rest |-> r.rest]
     ELSE LET p == ReadN(r.rest, n.val + 2)
          IN IF p.res.kind = "raise" THEN p
             ELSE [res |-> Ret(B(DropLast2(p.res.val))), rest |-> p.rest]

handle_array(s) ==
  LET r == ReadStrippedLine(s)
      n == ParseInt(r.line)
  IN IF n.kind = "raise" THEN [res |-> n, rest |-> r.rest]
     ELSE LET e == ReadElements(r.rest, n.val, <<>>)
          IN IF e.res.kind = "raise" THEN e
             ELSE [res |-> Ret(Arr(e.res.val)), rest |-> e.rest]

handle_dict(s) ==
  LET r == ReadStrippedLine(s)
      n == ParseInt(r.line)
  IN IF n.kind = "raise" THEN [res |-> n, rest |-> r.rest]
     ELSE LET e == ReadElements(r.rest, n.val * 2, <<>>)
          IN IF e.res.kind = "raise" THEN e
             ELSE [res |-> DictZip(<<>>, e.res.val), rest |-> e.rest]

\* An empty read(1) is the end of the stream; a first byte that is no type tag
\* makes the whole line a plain string.
handle_request(s) ==
  IF s = <<>> THEN [res |-> Raise("EOFError"), rest |-> s]
  ELSE LET first_byte == Head(s)
           body == Tail(s)
       IN CASE first_byte = "+" -> handle_simple_string(body)
            [] first_byte = "-" -> handle_error(body)
            [] first_byte = ":" -> handle_integer(body)
            [] first_byte = "$" -> handle_string(body)
            [] first_byte = "*" -> handle_array(body)
            [] first_byte = "%" -> handle_dict(body)
            [] OTHER -> LET r == ReadStrippedLine(body)
                        IN [res |-> Ret(B(<<first_byte>> \o r.line)), rest |-> r.rest]

----------------------------------------------------------------------------
(* ProtocolHandler: the encoder *)

RECURSIVE WriteValue(_)
RECURSIVE WriteItems(_)
RECURSIVE WritePairs(_)

WriteItems(items) ==
  IF items = <<>> THEN <<>> ELSE WriteValue(Head(items)) \o WriteItems(Tail(items))

WritePairs(pairs) ==
  IF pairs = <<>> THEN <<>>
  ELSE WriteValue(Head(pairs)[1]) \o WriteValue(Head(pairs)[2]) \o WritePairs(Tail(pairs))

\* ProtocolHandler._write, for the values of the tagged representation above
\* (its last branch, a value of any other type, raises CommandError).
WriteValue(data) ==
  CASE data.t = "bytes" -> <<"$">> \o FormatD(Len(data.v)) \o CRLF \o data.v \o CRLF
    [] data.t \in {"int", "bool", "float"} -> <<":">> \o FormatD(NumberForD(data)) \o CRLF
    [] data.t = "error" -> <<"-">> \o data.v \o CRLF
    [] data.t = "array" -> <<"*">> \o FormatD(Len(data.v)) \o CRLF \o WriteItems(data.v)
    [] data.t = "map" -> <<"%">> \o FormatD(Len(data.v)) \o CRLF \o WritePairs(data.v)
    [] data.t = "null" -> <<"$", "-", "1">> \o CRLF

----------------------------------------------------------------------------
(* Bounds and the inputs the clients draw from *)

\* How many writes the write history keeps.
MaxOps == 3

\* How deep the arrays and mappings of the codec round trip nest.
MaxDepth == 3

\* The declared lengths of the raw bulk-string frames: -MaxAbsLen..MaxAbsLen.
MaxAbsLen == 4

Conns == {1, 2}

\* The connections the clients of a sequential run open.
OneClient == {1}

GET == <<"G", "E", "T">>
SET == <<"S", "E", "T">>
DELETE == <<"D", "E", "L", "E", "T", "E">>
FLUSH == <<"F", "L", "U", "S", "H">>
MGET == <<"M", "G", "E", "T">>
MSET == <<"M", "S", "E", "T">>
SAVE == <<"S", "A", "V", "E">>
RESTORE == <<"R", "E", "S", "T", "O", "R", "E">>
MERGE == <<"M", "E", "R", "G", "E">>
QUIT == <<"Q", "U", "I", "T">>
SHUTDOWN == <<"S", "H", "U", "T", "D", "O", "W", "N">>

\* Server.get_commands
CommandNames == {GET, SET, DELETE, FLUSH, MGET, MSET, SAVE, RESTORE, MERGE, QUIT, SHUTDOWN}

KeyA == B(<<"a">>)
KeyB == B(<<"b">>)
KeyArgs == {KeyA, KeyB}
Val1 == B(<<"1">>)
Val2 == B(<<"2">>)

\* The key and value of the SET requests the clients send.
SetArgs == {<<KeyA, Val1>>, <<KeyA, Val2>>, <<KeyB, Val1>>}

\* Paths are named from the running process: FILE_NAME is the path it saves to
\* (it carries the start time, so every start of the process has its own),
\* OldPath the path the latest earlier run saved to, BadPath a file that is no
\* pickle, MissingPath a path nothing was ever written to.
FILE_NAME == <<"n", "o", "w">>
OldPath == <<"o", "l", "d">>
BadPath == <<"b", "a", "d">>
MissingPath == <<"n", "o">>

Paths == {FILE_NAME, OldPath, BadPath, MissingPath}

NoFile == [kind |-> "absent"]
Garbage == [kind |-> "garbage"]

EmptyKv == [k \in {} |-> Null]

\* What the earlier run had saved.
OldState == [kv |-> [k \in {KeyA} |-> Val2], schedule |-> <<B(<<"j">>)>>]

----------------------------------------------------------------------------
(* Server: state, snapshot and command handlers *)

VARIABLES
  kv,        \* Server._kv
  schedule,  \* Server._schedule
  clients,   \* the connections the clients open in this run
  disk,      \* the files under ./saved_files/, by path
  open,      \* open[c]: connection c is accepted and its handler loop runs
  last,      \* the last iteration of a handler loop: connection, request, outcome, bytes written
  snap,      \* history: per path, the state the store held at the latest SAVE to it
  tracking,  \* history: the write history is being kept
  log,       \* history: the writes served since the store was empty, each with its connection
  phase,     \* codec round trip: "idle", "wire", "done"
  wire,      \* codec round trip: the bytes on the stream
  sent,      \* codec round trip: the value that was encoded, if one was
  dec        \* codec round trip: what handle_request made of the bytes

codecVars == <<phase, wire, sent, dec>>
vars == <<kv, schedule, clients, disk, open, last, snap, tracking, log, phase, wire, sent, dec>>

\* pickle.dump / pickle.load: the file holds a copy of the object; a file that
\* is no pickle makes load raise.
Pickle(state) == [kind |-> "pickle", obj |-> state]

Unpickle(file) == IF file.kind = "pickle" THEN Ret(file.obj) ELSE Raise("UnpicklingError")

\* What a handler leaves: its outcome and the store (and disk) after it.
Result(out, k, s, d) == [out |-> out, kv |-> k, schedule |-> s, disk |-> d]

\* dict.get(key)
DictGet(d, key) == IF key \in DOMAIN d THEN d[key] ELSE Null

\* d[key] = value
DictSet(d, key, value) == [k \in DOMAIN d \cup {key} |-> IF k = key THEN value ELSE d[k]]

\* del d[key]
DictDel(d, key) == [k \in DOMAIN d \ {key} |-> d[k]]

\* orig.update(updates); return orig
DictUpdate(orig, updates) ==
  [k \in DOMAIN orig \cup DOMAIN updates |-> IF k \in DOMAIN updates THEN updates[k] ELSE orig[k]]

\* Python truth of a value (if not merge)
Truthy(x) ==
  CASE x.t = "null" -> FALSE
    [] x.t = "bool" -> x.v
    [] x.t \in {"int", "float"} -> x.v # 0
    [] x.t \in {"bytes", "array", "map"} -> x.v # <<>>
    [] x.t = "error" -> TRUE

_get_state(k, s) == [kv |-> k, schedule |-> s]

\* _set_state that merges whether asked to or not.
_set_state_always_merges(k, s, state, merge) ==
  [kv |-> DictUpdate(state.kv, k), schedule |-> state.schedule]

_set_state(k, s, state, merge) ==
  IF ~merge THEN [kv |-> state.kv, schedule |-> state.schedule]
  ELSE [kv |-> DictUpdate(state.kv, k), schedule |-> state.schedule]

save_to_disk(k, s, d, filename) ==
  Result(Ret(Bool(TRUE)), k, s, [d EXCEPT ![filename] = Pickle(_get_state(k, s))])

\* os.path.exists(filename) for a bytes path (a path of any other type is not
\* drawn as an input; None, a list or an Error raise TypeError there).
PathExists(d, filename) ==
  filename.t = "bytes" /\ filename.v \in DOMAIN d /\ d[filename.v] # NoFile

\* restore_from_disk without the os.path.exists test: open() raises on a
\* missing file.
restore_from_disk_unchecked(k, s, d, filename, merge) ==
  IF filename.t # "bytes" THEN Result(Raise("TypeError"), k, s, d)
  ELSE IF ~PathExists(d, filename) THEN Result(Raise("FileNotFoundError"), k, s, d)
  ELSE LET state == Unpickle(d[filename.v])
       IN IF state.kind = "raise" THEN Result(state, k, s, d)
          ELSE LET new == _set_state(k, s, state.val, merge)
               IN Result(Ret(Bool(TRUE)), new.kv, new.schedule, d)

restore_from_disk(k, s, d, filename, merge) ==
  IF filename.t # "bytes" THEN Result(Raise("TypeError"), k, s, d)
  ELSE IF ~PathExists(d, filename) THEN Result(Ret(Bool(FALSE)), k, s, d)
  ELSE LET state == Unpickle(d[filename.v])
       IN IF state.kind = "raise" THEN Result(state, k, s, d)
          ELSE LET new == _set_state(k, s, state.val, merge)
               IN Result(Ret(Bool(TRUE)), new.kv, new.schedule, d)

merge_from_disk(k, s, d, filename) == restore_from_disk(k, s, d, filename, TRUE)

get(k, key) == IF ~Hashable(key) THEN Raise("TypeError") ELSE Ret(DictGet(k, key))

set(k, key, value) ==
  IF ~Hashable(key) THEN [out |-> Raise("TypeError"), kv |-> k]
  ELSE [out |-> Ret(I(1)), kv |-> DictSet(k, key, value)]

\* delete that empties the dict instead of removing the one key.
delete_clears(k, key) ==
  IF ~Hashable(key) THEN [out |-> Raise("TypeError"), kv |-> k]
  ELSE IF key \in DOMAIN k THEN [out |-> Ret(I(1)), kv |-> EmptyKv]
  ELSE [out |-> Ret(I(0)), kv |-> k]

delete(k, key) ==
  IF ~Hashable(key) THEN [out |-> Raise("TypeError"), kv |-> k]
  ELSE IF key \in DOMAIN k THEN [out |-> Ret(I(1)), kv |-> DictDel(k, key)]
  ELSE [out |-> Ret(I(0)), kv |-> k]

\* flush that reports the size and clears nothing.
flush_keeps(k) == [out |-> Ret(I(Cardinality(DOMAIN k))), kv |-> k]

\* flush that takes the length after clearing.
flush_counts_after(k) == [out |-> Ret(I(0)), kv |-> EmptyKv]

flush(k) == [out |-> Ret(I(Cardinality(DOMAIN k))), kv |-> EmptyKv]

RECURSIVE mgetItems(_, _)
mgetItems(k, keys) ==
  IF keys = <<>> THEN <<>> ELSE <<DictGet(k, Head(keys))>> \o mgetItems(k, Tail(keys))

mget(k, keys) ==
  IF \E i \in 1..Len(keys) : ~Hashable(keys[i]) THEN Raise("TypeError")
  ELSE Ret(Arr(mgetItems(k, keys)))

\* for key, value in zip(items[::2], items[1::2]): self._kv[key] = value
\* (a key that cannot be hashed raises after the pairs before it are stored)
RECURSIVE msetLoop(_, _, _)
msetLoop(k, items, n) ==
  IF Len(items) < 2 THEN [out |-> Ret(I(n)), kv |-> k]
  ELSE IF ~Hashable(items[1]) THEN [out |-> Raise("TypeError"), kv |-> k]
  ELSE msetLoop(DictSet(k, items[1], items[2]), Tail(Tail(items)), n + 1)

\* mset that pairs a trailing key with None instead of dropping it.
mset_pairs_trailing(k, items) ==
  msetLoop(k, IF Len(items) % 2 = 1 THEN Append(items, Null) ELSE items, 0)

\* mset that stores its first pair and reports them all.
mset_first_pair_only(k, items) ==
  [out |-> Ret(I(Len(items) \div 2)), kv |-> msetLoop(k, SubSeq(items, 1, 2), 0).kv]

mset(k, items) == msetLoop(k, items, 0)

----------------------------------------------------------------------------
(* Server: the dispatcher *)

LowerLetters == <<"a", "b", "c", "d", "e", "f", "g", "h", "i", "j", "k", "l", "m",
                  "n", "o", "p", "q", "r", "s", "t", "u", "v", "w", "x", "y", "z">>
UpperLetters == <<"A", "B", "C", "D", "E", "F", "G", "H", "I", "J", "K", "L", "M",
                  "N", "O", "P", "Q", "R", "S", "T", "U", "V", "W", "X", "Y", "Z">>

UpperMap == [c \in {LowerLetters[i] : i \in 1..26} |->
               UpperLetters[CHOOSE i \in 1..26 : LowerLetters[i] = c]]

UpperChar(c) == IF c \in DOMAIN UpperMap THEN UpperMap[c] ELSE c

\* bytes.upper()
Upper(s) == [i \in 1..Len(s) |-> UpperChar(s[i])]

\* bytes.split(): the runs of bytes between whitespace, none of them empty.
RECURSIVE SplitWords(_, _, _)
SplitWords(s, word, acc) ==
  IF s = <<>> THEN (IF word = <<>> THEN acc ELSE Append(acc, B(word)))
  ELSE IF IsWhite(Head(s))
       THEN SplitWords(Tail(s), <<>>, IF word = <<>> THEN acc ELSE Append(acc, B(word)))
       ELSE SplitWords(Tail(s), Append(word, Head(s)), acc)

\* split that keeps the line whole.
Split_whole(s) == <<B(s)>>

Split(s) == SplitWords(s, <<>>, <<>>)

\* raise CommandError(message)
RaiseCommandError(m) == [kind |-> "raise", exc |-> "CommandError", message |-> m]

\* The list get_response works on: the request itself when it is a list, its
\* whitespace-split words when it is bytes; anything else has no split().
RequestItems(data) ==
  IF data.t = "array" THEN Ret(data.v)
  ELSE IF data.t = "bytes" THEN Ret(Split(data.v))
  ELSE RaiseCommandError(<<"Request must be list or simple string.">>)

\* self._commands[command](*args): Python raises TypeError when the number of
\* arguments does not fit the handler's signature.
CallCommand(command, args, k, s, d, filename) ==
  LET n == Len(args)
      arity == Result(Raise("TypeError"), k, s, d)
      kvOnly(r) == Result(r.out, r.kv, s, d)
  IN CASE command = GET ->
            IF n # 1 THEN arity ELSE Result(get(k, args[1]), k, s, d)
       [] command = SET ->
            IF n # 2 THEN arity ELSE kvOnly(set(k, args[1], args[2]))
       [] command = DELETE ->
            IF n # 1 THEN arity ELSE kvOnly(delete(k, args[1]))
       [] command = FLUSH ->
            IF n # 0 THEN arity ELSE kvOnly(flush(k))
       [] command = MGET -> Result(mget(k, args), k, s, d)
       [] command = MSET -> kvOnly(mset(k, args))
       [] command = SAVE ->
            IF n # 0 THEN arity ELSE save_to_disk(k, s, d, filename)
       [] command = RESTORE ->
            IF n = 1 THEN restore_from_disk(k, s, d, args[1], FALSE)
            ELSE IF n = 2 THEN restore_from_disk(k, s, d, args[1], Truthy(args[2]))
            ELSE arity
       [] command = MERGE ->
            IF n # 1 THEN arity ELSE merge_from_disk(k, s, d, args[1])
       [] command = QUIT ->
            IF n # 0 THEN arity ELSE Result(Raise("ClientQuit"), k, s, d)
       [] command = SHUTDOWN ->
            IF n # 0 THEN arity ELSE Result(Raise("Shutdown"), k, s, d)

\* get_response up to the lookup of the handler: the request as a list, its
\* first element upper-cased and looked up in self._commands.
ResolveCommand(data) ==
  LET items == RequestItems(data)
  IN IF items.kind = "raise" THEN items
     ELSE IF items.val = <<>> THEN RaiseCommandError(<<"Missing command">>)
     ELSE IF items.val[1].t # "bytes" THEN Raise("AttributeError")
     ELSE LET command == Upper(items.val[1].v)
          IN IF command \notin CommandNames
             THEN RaiseCommandError(<<"Unrecognized command: ">> \o command)
             ELSE Ret(<<command, Tail(items.val)>>)

\* get_response from there: the handler is called with the arguments.
get_response(resolved, k, s, d, filename) ==
  IF resolved.kind = "raise" THEN Result(resolved, k, s, d)
  ELSE CallCommand(resolved.val[1], resolved.val[2], k, s, d, filename)

----------------------------------------------------------------------------
(* Server: the connection handler *)

\* CommandError.__init__ keeps the message in self.message and calls
\* Exception.__init__ with no argument: exc.args is the empty tuple.
CommandErrorArgs(message) == <<>>

\* A handler that answers every exception with an Error frame.
ResponseOf_answers_all(call) ==
  IF call.kind = "return" THEN call ELSE Ret(Err(<<"e", "r", "r">>))

\* except CommandError as exc: resp = Error(exc.args[0])
\* Any other exception leaves the handler.
ResponseOf(call) ==
  IF call.kind = "return" THEN call
  ELSE IF call.exc = "CommandError"
       THEN (IF Len(CommandErrorArgs(call.message)) >= 1
             THEN Ret(Err(CommandErrorArgs(call.message)[1]))
             ELSE Raise("IndexError"))
  ELSE call

NoLast == [conn |-> 0, req |-> Raise("none"), call |-> Raise("none"),
           out |-> Raise("none"), sent |-> <<>>]

NoSnap == [kv |-> EmptyKv, schedule |-> <<>>, saved |-> FALSE]

WriteCommands == {SET, MSET, DELETE, FLUSH}

\* Client.execute: the request is the array of the command name and its arguments.
Frame(items) == WriteValue(Arr(items))

\* A plain line, as typed into a raw connection.
Line(chars) == chars \o CRLF

MGetArgLists == {<<>>, <<KeyB>>, <<KeyA, KeyB>>}

MSetArgLists ==
  {<<KeyA, Val2, KeyB, Val1>>, <<KeyA, Val1, KeyB>>, <<KeyB, Val1, KeyA, Val1>>}

MergeFlags == {Val1}

UnknownNames == {<<"P", "I", "N", "G">>, <<"g", "e", "t", "s">>}

BadArityRequests ==
  {<<B(GET)>>, <<B(GET), KeyA, KeyB>>, <<B(SET), KeyA>>, <<B(FLUSH), KeyA>>}

\* Plain lines, each with the array of its words: the request Client.execute
\* would send for the same command.
InlinePairs ==
  {[line |-> <<"s", "e", "t", " ", "a", " ", "1">>,
    items |-> <<B(<<"s", "e", "t">>), KeyA, Val1>>],
   [line |-> <<"n", "o", "p", "e">>,
    items |-> <<B(<<"n", "o", "p", "e">>)>>],
   [line |-> <<" ">>,
    items |-> <<>>],
   [line |-> <<"G", "E", "T", " ", "a">>,
    items |-> <<B(GET), KeyA>>],
   [line |-> <<"D", "E", "L", "E", "T", "E", " ", "\t", "a">>,
    items |-> <<B(DELETE), KeyA>>],
   [line |-> <<"M", "S", "E", "T", " ", "a", " ", "2", " ", "b", " ", "1">>,
    items |-> <<B(MSET), KeyA, Val2, KeyB, Val1>>],
   [line |-> <<"M", "G", "E", "T", " ", "a", " ", "b">>,
    items |-> <<B(MGET), KeyA, KeyB>>],
   [line |-> <<"F", "L", "U", "S", "H">>,
    items |-> <<B(FLUSH)>>],
   [line |-> <<"G", "E", "T">>,
    items |-> <<B(GET)>>]}

InlineLines == {p.line : p \in InlinePairs}

GetFrames == {Frame(<<B(GET), key>>) : key \in KeyArgs}
SetFrames == {Frame(<<B(SET), a[1], a[2]>>) : a \in SetArgs}
DeleteFrames == {Frame(<<B(DELETE), key>>) : key \in KeyArgs}
MGetFrames == {Frame(<<B(MGET)>> \o keys) : keys \in MGetArgLists}
MSetFrames == {Frame(<<B(MSET)>> \o items) : items \in MSetArgLists}
RestoreFrames ==
  {Frame(<<B(RESTORE), B(p)>>) : p \in Paths}
    \cup {Frame(<<B(RESTORE), B(p), m>>) : p \in Paths, m \in MergeFlags}
MergeFrames == {Frame(<<B(MERGE), B(p)>>) : p \in Paths}
UnknownFrames == {Frame(<<B(name), KeyA>>) : name \in UnknownNames}
BadArityFrames == {Frame(items) : items \in BadArityRequests}
InlineFrames == {Line(chars) : chars \in InlineLines}
CanonicalFrames == {Frame(p.items) : p \in InlinePairs}
\* Frames whose length, count or integer field is no decimal number.
MalformedFrames ==
  {<<"$", "x", CR, LF>>, <<"*", "x", CR, LF>>, <<":", "1", "x", CR, LF>>,
   <<"%", CR, LF>>,
   <<"*", "2">> \o CRLF \o WriteValue(B(GET)) \o <<"$", "z", CR, LF>>}
\* Requests whose key argument is no bulk string: an integer, Null, an error,
\* an array, a mapping.
TypedArgs == {I(1), Null, Err(<<"e">>), Arr(<<>>), Map(<<>>)}
SetTypedFrames == {Frame(<<B(SET), key, Val1>>) : key \in TypedArgs}
MSetTypedFrames ==
  {Frame(<<B(MSET), KeyA, Val1, Null, Val2>>),
   Frame(<<B(MSET), KeyB, Val1, Arr(<<>>), Val1>>)}
FlushFrame == Frame(<<B(FLUSH)>>)
SaveFrame == Frame(<<B(SAVE)>>)
QuitFrame == Frame(<<B(QUIT)>>)
ShutdownFrame == Frame(<<B(SHUTDOWN)>>)

\* Every stream a client of the model sends; the empty one is a closed peer.
ClientStreams ==
  GetFrames \cup SetFrames \cup DeleteFrames \cup MGetFrames \cup MSetFrames
    \cup RestoreFrames \cup MergeFrames \cup UnknownFrames \cup BadArityFrames
    \cup InlineFrames \cup {FlushFrame, SaveFrame, QuitFrame, ShutdownFrame, <<>>}
    \cup MalformedFrames \cup SetTypedFrames \cup MSetTypedFrames \cup CanonicalFrames

DecodeTable == [stream \in ClientStreams |-> handle_request(stream)]


\* handle_request and ResolveCommand, tabulated over the streams the clients send.
ResolveTable ==
  [stream \in ClientStreams |->
     IF DecodeTable[stream].res.kind = "raise" THEN DecodeTable[stream].res
     ELSE ResolveCommand(DecodeTable[stream].res.val)]

Decoded(stream) == DecodeTable[stream]

Resolved(stream) == ResolveTable[stream]

\* One iteration of the loop of connection_handler on connection c, with the
\* bytes of one request on the stream: decode, dispatch, write the response.
\* The greenlet runs from the read to the write without yielding.
Serve(c, stream) ==
  /\ open[c]
  /\ \E req \in {Decoded(stream).res} :
       IF req.kind = "raise"
       THEN /\ open' = [open EXCEPT ![c] = FALSE]
            /\ last' = [conn |-> c, req |-> req, call |-> req, out |-> req, sent |-> <<>>]
            /\ UNCHANGED <<kv, schedule, disk, snap, log>>
       ELSE \E resolved \in {Resolved(stream)} :
            \E r \in {get_response(resolved, kv, schedule, disk, FILE_NAME)} :
            \E resp \in {ResponseOf(r.out)} :
              LET cmd == IF resolved.kind = "return" THEN resolved.val ELSE <<>>
                  isWrite == tracking /\ cmd # <<>> /\ cmd[1] \in WriteCommands
              IN /\ isWrite => Len(log) < MaxOps
                 /\ kv' = r.kv
                 /\ schedule' = r.schedule
                 /\ disk' = r.disk
                 /\ open' = [open EXCEPT ![c] = (resp.kind = "return")]
                 /\ last' = [conn |-> c, req |-> req, call |-> r.out, out |-> resp,
                             sent |-> IF resp.kind = "return" THEN WriteValue(resp.val)
                                      ELSE <<>>]
                 /\ snap' = IF cmd = <<SAVE, <<>>>>
                            THEN [snap EXCEPT ![FILE_NAME] =
                                    [kv |-> kv, schedule |-> schedule, saved |-> TRUE]]
                            ELSE snap
                 /\ log' = IF isWrite THEN Append(log, <<cmd[1], cmd[2], c>>) ELSE log
  /\ UNCHANGED <<clients, tracking>>
  /\ UNCHANGED codecVars

Connect(c) ==
  /\ c \in clients
  /\ ~open[c]
  /\ open' = [open EXCEPT ![c] = TRUE]
  /\ UNCHANGED <<kv, schedule, clients, disk, last, snap, tracking, log>>
  /\ UNCHANGED codecVars

\* The peer closes: read(1) returns nothing, EOFError ends the loop.
Eof(c) == Serve(c, <<>>)

Get(c) == \E f \in GetFrames : Serve(c, f)

Set(c) == \E f \in SetFrames : Serve(c, f)

Delete(c) == \E f \in DeleteFrames : Serve(c, f)

Flush(c) == Serve(c, FlushFrame)

MGet(c) == \E f \in MGetFrames : Serve(c, f)

MSet(c) == \E f \in MSetFrames : Serve(c, f)

Save(c) == Serve(c, SaveFrame)

Restore(c) == \E f \in RestoreFrames : Serve(c, f)

Merge(c) == \E f \in MergeFrames : Serve(c, f)

Quit(c) == Serve(c, QuitFrame)

Shutdown(c) == Serve(c, ShutdownFrame)

Unknown(c) == \E f \in UnknownFrames : Serve(c, f)

BadArity(c) == \E f \in BadArityFrames : Serve(c, f)

Inline(c) == \E f \in InlineFrames : Serve(c, f)

Malformed(c) == \E f \in MalformedFrames : Serve(c, f)

SetTyped(c) == \E f \in SetTypedFrames : Serve(c, f)

MSetTyped(c) == \E f \in MSetTypedFrames : Serve(c, f)

\* The process ends and is started again: a new Server, with nothing in it, no
\* connection, and a FILE_NAME of its own.  The files stay; what the ended
\* process had saved is from now on the snapshot of the latest earlier run.
Restart ==
  /\ ~tracking
  /\ kv' = EmptyKv
  /\ schedule' = <<>>
  /\ open' = [c \in Conns |-> FALSE]
  /\ last' = NoLast
  /\ IF disk[FILE_NAME] # NoFile
     THEN /\ disk' = [disk EXCEPT ![OldPath] = disk[FILE_NAME], ![FILE_NAME] = NoFile]
          /\ snap' = [snap EXCEPT ![OldPath] = snap[FILE_NAME], ![FILE_NAME] = NoSnap]
     ELSE UNCHANGED <<disk, snap>>
  /\ UNCHANGED <<clients, tracking, log>>
  /\ UNCHANGED codecVars

InitServer ==
  /\ kv = EmptyKv
  /\ schedule = <<>>
  /\ disk = [p \in Paths |-> IF p = OldPath THEN Pickle(OldState)
                             ELSE IF p = BadPath THEN Garbage ELSE NoFile]
  /\ open = [c \in Conns |-> FALSE]
  /\ last = NoLast
  /\ snap = [p \in Paths |-> NoSnap]
  /\ log = <<>>

InitCodec ==
  /\ phase = "idle"
  /\ wire = <<>>
  /\ sent = [kind |-> "none"]
  /\ dec = [res |-> Raise("none"), rest |-> <<>>]

InitOneClient == tracking = FALSE /\ clients = OneClient

Init == InitServer /\ InitCodec /\ InitOneClient

Next ==
  \/ \E c \in Conns : Connect(c)
  \/ \E c \in Conns : Eof(c)
  \/ \E c \in Conns : Get(c)
  \/ \E c \in Conns : Set(c)
  \/ \E c \in Conns : Delete(c)
  \/ \E c \in Conns : Flush(c)
  \/ \E c \in Conns : MGet(c)
  \/ \E c \in Conns : MSet(c)
  \/ \E c \in Conns : Save(c)
  \/ \E c \in Conns : Restore(c)
  \/ \E c \in Conns : Merge(c)
  \/ \E c \in Conns : Quit(c)
  \/ \E c \in Conns : Shutdown(c)
  \/ \E c \in Conns : Unknown(c)
  \/ \E c \in Conns : BadArity(c)
  \/ \E c \in Conns : Inline(c)
  \/ Restart

Spec == Init /\ [][Next]_vars

----------------------------------------------------------------------------
(* The store under SET, MSET, DELETE, FLUSH, GET and MGET alone, with the     *)
(* history of the writes kept.                                                *)

InitKV == InitServer /\ InitCodec /\ tracking = TRUE /\ clients = OneClient

NextKV ==
  \/ \E c \in Conns : Connect(c)
  \/ \E c \in Conns : Get(c)
  \/ \E c \in Conns : Set(c)
  \/ \E c \in Conns : Delete(c)
  \/ \E c \in Conns : Flush(c)
  \/ \E c \in Conns : MGet(c)
  \/ \E c \in Conns : MSet(c)

SpecKV == InitKV /\ [][NextKV]_vars

----------------------------------------------------------------------------
(* Two connections on one server: requests, signals, closed peers and frames  *)
(* that cannot be decoded.  A handler yields only inside a stream read or     *)
(* write; the handler of the other connection runs between the iterations.    *)

InitConn == InitServer /\ InitCodec /\ tracking = FALSE /\ clients = Conns

NextConn ==
  \/ \E c \in Conns : Connect(c)
  \/ \E c \in Conns : Eof(c)
  \/ \E c \in Conns : Get(c)
  \/ \E c \in Conns : Set(c)
  \/ \E c \in Conns : Quit(c)
  \/ \E c \in Conns : Shutdown(c)
  \/ \E c \in Conns : Unknown(c)
  \/ \E c \in Conns : BadArity(c)
  \/ \E c \in Conns : Malformed(c)

SpecConn == InitConn /\ [][NextConn]_vars

----------------------------------------------------------------------------
(* One connection whose SET and MSET requests carry keys of every type the    *)
(* protocol can encode, with SAVE, RESTORE and MERGE.                         *)

NextTyped ==
  \/ \E c \in Conns : Connect(c)
  \/ \E c \in Conns : SetTyped(c)
  \/ \E c \in Conns : MSetTyped(c)
  \/ \E c \in Conns : Save(c)
  \/ \E c \in Conns : Restore(c)
  \/ \E c \in Conns : Merge(c)

SpecTyped == Init /\ [][NextTyped]_vars

----------------------------------------------------------------------------
(* Two connections writing and reading one store, with the history of the     *)
(* writes kept.  The handlers are greenlets of one thread: a handler is       *)
(* switched out only inside a stream read or write, and get_response does     *)
(* neither, so what the other handler can see of a command is the store       *)
(* before it or the store after it.  A handler waiting in handle_request for  *)
(* its request, or in write_response for room to write, has no effect on the  *)
(* store while it waits: the steps of the two handlers that matter are the    *)
(* iterations of their loops, in the order in which their requests complete.  *)

InitTwo == InitServer /\ InitCodec /\ tracking = TRUE /\ clients = Conns

NextTwo ==
  \/ \E c \in Conns : Connect(c)
  \/ \E c \in Conns : Get(c)
  \/ \E c \in Conns : MGet(c)
  \/ \E c \in Conns : MSet(c)
  \/ \E c \in Conns : Flush(c)

SpecTwo == InitTwo /\ [][NextTwo]_vars

----------------------------------------------------------------------------
(* The codec alone: a peer writes a value (write_response) or raw bytes, and  *)
(* handle_request reads the stream.                                           *)

\* ProtocolHandler.write_response: the value is encoded into a buffer, and the
\* whole buffer is written and flushed.
write_response(data) == WriteValue(data)

Scalars ==
  {B(<<>>), B(<<"$", CR, LF>>), I(-7), I(12), Flt(3), Err(<<"e">>), Null}

MapKeys == {B(<<"k">>), I(1)}

RECURSIVE ValuesAt(_)
ValuesAt(depth) ==
  IF depth = 0 THEN Scalars
  ELSE LET inner == ValuesAt(depth - 1)
       IN inner \cup {Arr(<<>>), Map(<<>>)}
            \cup {Arr(<<x>>) : x \in inner}
            \cup {Arr(<<Null, x>>) : x \in inner}
            \cup {Map(<<<<k, x>>>>) : k \in MapKeys, x \in inner}

CodecValues == ValuesAt(MaxDepth)

\* What follows the value on the stream.
Tails == {<<>>, <<"+", "o", "k", CR, LF>>}

RawPayloads == {<<>>, <<"a", "b", CR, LF>>, <<"a", "b", "c", "d", CR, LF>>}

BulkFrame(n, payload) == <<"$">> \o FormatD(n) \o CRLF \o payload

\* (the empty stream is a peer that closed before the first byte of a frame)
OtherRawStreams ==
  {<<>>, <<":", "x", CR, LF>>, <<"*", "1", CR, LF>>, <<"+", "o", "k", CR, LF>>,
   <<"h", "i", CR, LF>>, <<"%", "1", CR, LF, "*", "0", CR, LF, ":", "1", CR, LF>>}

ClientWrite ==
  /\ phase = "idle"
  /\ \E v \in CodecValues, tail \in Tails :
       /\ sent' = [kind |-> "value", val |-> v, tail |-> tail]
       /\ wire' = write_response(v) \o tail
  /\ phase' = "wire"
  /\ UNCHANGED <<kv, schedule, clients, disk, open, last, snap, tracking, log, dec>>

ClientRawBulk ==
  /\ phase = "idle"
  /\ \E n \in (-MaxAbsLen)..MaxAbsLen, payload \in RawPayloads :
       /\ sent' = [kind |-> "bulk", len |-> n, payload |-> payload]
       /\ wire' = BulkFrame(n, payload)
  /\ phase' = "wire"
  /\ UNCHANGED <<kv, schedule, clients, disk, open, last, snap, tracking, log, dec>>

ClientRawOther ==
  /\ phase = "idle"
  /\ \E stream \in OtherRawStreams :
       /\ sent' = [kind |-> "raw"]
       /\ wire' = stream
  /\ phase' = "wire"
  /\ UNCHANGED <<kv, schedule, clients, disk, open, last, snap, tracking, log, dec>>

ServerRead ==
  /\ phase = "wire"
  /\ dec' = handle_request(wire)
  /\ phase' = "done"
  /\ UNCHANGED <<kv, schedule, clients, disk, open, last, snap, tracking, log, wire, sent>>

NextCodec == ClientWrite \/ ClientRawBulk \/ ClientRawOther \/ ServerRead

SpecCodec == Init /\ [][NextCodec]_vars

----------------------------------------------------------------------------
(* What the properties below speak of *)

\* The decoded request of the canonical frame of these items.
Req(items) == Ret(Arr(items))

\* A step that served a request (Connect leaves last alone, Restart resets it).
Served == last' # last /\ last'.conn # 0

\* The request is a list, or a line, whose first word is no registered command.
UnregisteredName(req) ==
  IF req.kind = "raise" THEN <<>>
  ELSE LET items == RequestItems(req.val)
       IN IF items.kind = "return" /\ items.val # <<>> /\ items.val[1].t = "bytes"
             /\ Upper(items.val[1].v) \notin CommandNames
          THEN Upper(items.val[1].v) ELSE <<>>

Contains(m, name) ==
  \E i \in 1..(Len(m) - Len(name) + 1) : SubSeq(m, i, i + Len(name) - 1) = name

\* The bytes written are exactly one frame, and it decodes to an Error.
IsErrorFrame(bytes) ==
  /\ bytes # <<>>
  /\ handle_request(bytes).res.kind = "return"
  /\ handle_request(bytes).res.val.t = "error"
  /\ handle_request(bytes).rest = <<>>

RaisedCommandError(call) == call.kind = "raise" /\ call.exc = "CommandError"

\* Python's == on the values of the model: numbers compare by value, lists
\* element by element, dicts as sets of items.
NumberHalves(x) ==
  CASE x.t = "int" -> 2 * x.v
    [] x.t = "bool" -> IF x.v THEN 2 ELSE 0
    [] x.t = "float" -> x.v

IsNumber(x) == x.t \in {"int", "bool", "float"}

RECURSIVE PyEq(_, _)
PyEq(a, b) ==
  IF IsNumber(a) /\ IsNumber(b) THEN NumberHalves(a) = NumberHalves(b)
  ELSE IF a.t # b.t THEN FALSE
  ELSE CASE a.t \in {"bytes", "error"} -> a.v = b.v
         [] a.t = "null" -> TRUE
         [] a.t = "array" ->
              /\ Len(a.v) = Len(b.v)
              /\ \A i \in 1..Len(a.v) : PyEq(a.v[i], b.v[i])
         [] a.t = "map" ->
              /\ Len(a.v) = Len(b.v)
              /\ \A i \in 1..Len(a.v) : \E j \in 1..Len(b.v) :
                   PyEq(a.v[i][1], b.v[j][1]) /\ PyEq(a.v[i][2], b.v[j][2])

\* The value the history of writes leaves under a key: that of the latest SET
\* or MSET pair that wrote it, unless a DELETE of the key or a FLUSH came later.
RECURSIVE LastPair(_, _)
LastPair(items, key) ==
  IF Len(items) < 2 THEN <<>>
  ELSE LET later == LastPair(Tail(Tail(items)), key)
       IN IF later # <<>> THEN later
          ELSE IF items[1] = key THEN <<items[2]>> ELSE <<>>

RECURSIVE LastWrite(_, _)
LastWrite(history, key) ==
  IF history = <<>> THEN Null
  ELSE LET e == history[Len(history)]
           before == SubSeq(history, 1, Len(history) - 1)
       IN CASE e[1] = FLUSH -> Null
            [] e[1] = DELETE -> IF e[2] = <<key>> THEN Null ELSE LastWrite(before, key)
            [] e[1] = SET -> IF e[2][1] = key THEN e[2][2] ELSE LastWrite(before, key)
            [] e[1] = MSET -> IF LastPair(e[2], key) # <<>> THEN LastPair(e[2], key)[1]
                              ELSE LastWrite(before, key)

----------------------------------------------------------------------------
(* The properties *)

\* C1: MERGE of an existing snapshot returns true; afterwards every key of the
\* snapshot reads as the snapshot's value (the snapshot wins over a local value
\* of the same key) and every key only the store had reads as before.
C1_MergeSnapshotWins ==
  [][\A p \in Paths :
       (Served /\ last'.req = Req(<<B(MERGE), B(p)>>) /\ disk[p].kind = "pickle")
         => /\ last'.call = Ret(Bool(TRUE))
            /\ \A k \in DOMAIN disk[p].obj.kv : get(kv', k) = Ret(disk[p].obj.kv[k])
            /\ \A k \in DOMAIN kv \ DOMAIN disk[p].obj.kv : get(kv', k) = Ret(kv[k])]_vars

\* C2: a request whose first element is no registered command is answered by
\* exactly one Error frame that names the command; Keyspace and Schedule are
\* unchanged and the connection stays open for the next request.
C2_UnknownCommandAnswered ==
  [][(Served /\ UnregisteredName(last'.req) # <<>>)
       => /\ IsErrorFrame(last'.sent)
          /\ Contains(handle_request(last'.sent).res.val.v, UnregisteredName(last'.req))
          /\ kv' = kv /\ schedule' = schedule
          /\ open'[last'.conn]]_vars

\* C3: a request that names a registered command with the wrong number of
\* arguments is rejected with CommandError, answered by exactly one Error frame,
\* leaves the Keyspace unchanged and the connection open.
C3_WrongArityAnswered ==
  [][(Served /\ last'.req \in {Req(items) : items \in BadArityRequests})
       => /\ RaisedCommandError(last'.call)
          /\ IsErrorFrame(last'.sent)
          /\ kv' = kv
          /\ open'[last'.conn]]_vars

\* C4: decoding the bytes that encoding a value wrote yields an equal value and
\* consumes exactly those bytes, for every value of the model, nested or not.
C4_RoundTrip ==
  (phase = "done" /\ sent.kind = "value")
    => /\ dec.res.kind = "return"
       /\ PyEq(dec.res.val, sent.val)
       /\ dec.rest = sent.tail

\* C5: a bulk-string frame that declares a length below -1 makes the decoder
\* raise (its error for a malformed frame) and yields no value; only the length
\* -1 decodes to Null.
C5_BulkBelowMinusOneRaises ==
  (phase = "done" /\ sent.kind = "bulk")
    => /\ sent.len < -1 => dec.res.kind = "raise"
       /\ dec.res = Ret(Null) => sent.len = -1

\* C6: RESTORE (without merge) of the path of the latest SAVE returns true and
\* leaves the Keyspace and the Schedule exactly as they were at that SAVE,
\* whatever was written since, on the store that saved or on a fresh one.
C6_RestoreReproducesSave ==
  \A p \in Paths :
    (last.req = Req(<<B(RESTORE), B(p)>>) /\ snap[p].saved)
      => /\ last.call = Ret(Bool(TRUE))
         /\ kv = snap[p].kv
         /\ schedule = snap[p].schedule

\* A fresh store restored the snapshot of the run before it, which held a key
\* written there and a Schedule that is not empty.
C6_Witness ==
  /\ last.req = Req(<<B(RESTORE), B(OldPath)>>)
  /\ snap[OldPath].saved
  /\ KeyB \in DOMAIN kv
  /\ schedule # <<>>

\* C7: RESTORE or MERGE of a path that does not exist returns false and leaves
\* the Keyspace and the Schedule unchanged.
C7_MissingPathReturnsFalse ==
  [][\A p \in Paths :
       (/\ Served
        /\ last'.req \in {Req(<<B(RESTORE), B(p)>>), Req(<<B(MERGE), B(p)>>)}
                           \cup {Req(<<B(RESTORE), B(p), m>>) : m \in MergeFlags}
        /\ disk[p] = NoFile)
         => /\ last'.call = Ret(Bool(FALSE))
            /\ kv' = kv
            /\ schedule' = schedule]_vars

\* A store that holds keys and a Schedule was asked to MERGE a missing path.
C7_Witness ==
  /\ last.req = Req(<<B(MERGE), B(MissingPath)>>)
  /\ last.call = Ret(Bool(FALSE))
  /\ kv # EmptyKv
  /\ schedule # <<>>

\* C8: RESTORE or MERGE of a file that cannot be deserialized fails with
\* CommandError, answered by an Error frame; Keyspace and Schedule are unchanged,
\* the connection stays open, and the outcome is not the false of a missing file.
C8_BadFileAnswered ==
  [][\A p \in Paths :
       (/\ Served
        /\ last'.req \in {Req(<<B(RESTORE), B(p)>>), Req(<<B(MERGE), B(p)>>)}
        /\ disk[p] = Garbage)
         => /\ RaisedCommandError(last'.call)
            /\ IsErrorFrame(last'.sent)
            /\ kv' = kv /\ schedule' = schedule
            /\ open'[last'.conn]
            /\ last'.call # Ret(Bool(FALSE))]_vars

\* C9: from the empty Keyspace, after any SET, MSET, DELETE and FLUSH, GET of a
\* key returns the value of the latest write to it that no DELETE of the key or
\* FLUSH removed, Null when there is none; every SET returns 1.
C9_GetReturnsLastWrite ==
  /\ \A key \in KeyArgs : get(kv, key) = Ret(LastWrite(log, key))
  /\ \A key \in KeyArgs :
       last.req = Req(<<B(GET), key>>)
         => /\ last.call = Ret(LastWrite(log, key))
            /\ last.sent = WriteValue(LastWrite(log, key))
  /\ \A a \in SetArgs : last.req = Req(<<B(SET), a[1], a[2]>>) => last.call = Ret(I(1))

\* GET returned the value written last, over an earlier write of another value.
C9_Witness ==
  /\ last.req = Req(<<B(GET), KeyA>>)
  /\ last.call = Ret(Val1)
  /\ Len(log) >= 2
  /\ log[1] = <<SET, <<KeyA, Val2>>, 1>>

\* C10: DELETE of an absent key returns 0 and leaves the Keyspace as it is;
\* DELETE of a present key returns 1, removes that entry and no other, so the
\* same DELETE repeated at once returns 0.
C10_Delete ==
  [][\A key \in KeyArgs :
       (Served /\ last'.req = Req(<<B(DELETE), key>>))
         => /\ key \notin DOMAIN kv => (last'.call = Ret(I(0)) /\ kv' = kv)
            /\ key \in DOMAIN kv =>
                 /\ last'.call = Ret(I(1))
                 /\ DOMAIN kv' = DOMAIN kv \ {key}
                 /\ \A k \in DOMAIN kv' : kv'[k] = kv[k]
            /\ (last.req = last'.req /\ last.call = Ret(I(1)))
                 => last'.call = Ret(I(0))]_vars

\* A present key was deleted while another key stayed.
C10_Witness ==
  /\ last.req = Req(<<B(DELETE), KeyA>>)
  /\ last.call = Ret(I(1))
  /\ KeyB \in DOMAIN kv

\* C11: MSET of n arguments stores the n \div 2 pairs it is given, in order, and
\* returns n \div 2; a trailing key without a value is dropped, its entry neither
\* created nor changed; MGET returns, in the order of its arguments, the stored
\* value of each key and Null for each absent key.
C11_MSetPairsMGetOrder ==
  [][/\ \A items \in MSetArgLists :
          (Served /\ last'.req = Req(<<B(MSET)>> \o items))
            => /\ last'.call = Ret(I(Len(items) \div 2))
               /\ last'.sent = WriteValue(I(Len(items) \div 2))
               /\ \A key \in KeyArgs \cup DOMAIN kv \cup DOMAIN kv' :
                    IF \E j \in 1..(Len(items) \div 2) : items[2 * j - 1] = key
                    THEN LET j == CHOOSE j \in 1..(Len(items) \div 2) :
                                    /\ items[2 * j - 1] = key
                                    /\ \A i \in (j + 1)..(Len(items) \div 2) :
                                         items[2 * i - 1] # key
                         IN key \in DOMAIN kv' /\ kv'[key] = items[2 * j]
                    ELSE /\ key \in DOMAIN kv' <=> key \in DOMAIN kv
                         /\ key \in DOMAIN kv => kv'[key] = kv[key]
     /\ \A keys \in MGetArgLists :
          (Served /\ last'.req = Req(<<B(MGET)>> \o keys))
            => /\ last'.call = Ret(Arr([i \in 1..Len(keys) |->
                                         IF keys[i] \in DOMAIN kv THEN kv[keys[i]]
                                         ELSE Null]))
               /\ last'.sent = WriteValue(last'.call.val)
               /\ kv' = kv]_vars

\* MSET a 1 b, with its trailing key b, answered 1 and left the b stored before.
C11_Witness ==
  /\ last.req = Req(<<B(MSET), KeyA, Val1, KeyB>>)
  /\ last.call = Ret(I(1))
  /\ KeyA \in DOMAIN kv /\ kv[KeyA] = Val1
  /\ KeyB \in DOMAIN kv /\ kv[KeyB] = Val1

\* C12: FLUSH returns the number of entries the Keyspace held, leaves it empty
\* and leaves the Schedule as it was; the GET of a former key served next
\* returns Null, and a FLUSH served next returns 0.
C12_Flush ==
  [][/\ (Served /\ last'.req = Req(<<B(FLUSH)>>))
          => /\ last'.call = Ret(I(Cardinality(DOMAIN kv)))
             /\ last'.sent = WriteValue(I(Cardinality(DOMAIN kv)))
             /\ kv' = EmptyKv
             /\ schedule' = schedule
             /\ \A key \in DOMAIN kv : get(kv', key) = Ret(Null)
     /\ (Served /\ last.conn # 0 /\ last.req = Req(<<B(FLUSH)>>))
          => /\ last'.req = Req(<<B(FLUSH)>>) => last'.call = Ret(I(0))
             /\ \A key \in KeyArgs :
                  last'.req = Req(<<B(GET), key>>) => last'.call = Ret(Null)]_vars

\* FLUSH emptied a Keyspace of two entries beside a Schedule that is not empty.
C12_Witness ==
  /\ last.req = Req(<<B(FLUSH)>>)
  /\ last.call = Ret(I(2))
  /\ kv = EmptyKv
  /\ schedule # <<>>

\* The connections other than the one the last iteration ran on are as before.
OthersUntouched == \A c \in Conns \ {last'.conn} : open'[c] = open[c]

\* The bytes written are exactly one frame.
IsOneFrame(bytes) ==
  /\ bytes # <<>>
  /\ handle_request(bytes).res.kind = "return"
  /\ handle_request(bytes).rest = <<>>

\* C13: QUIT ends the handler of its connection with no response frame written,
\* leaves the Keyspace and the Schedule as they were, and leaves every other
\* connection open.
C13_QuitEndsOneConnection ==
  [][(Served /\ last'.req = Req(<<B(QUIT)>>))
       => /\ last'.sent = <<>>
          /\ ~open'[last'.conn]
          /\ kv' = kv /\ schedule' = schedule
          /\ OthersUntouched]_vars

\* Connection 1 quit while connection 2 was open and the store held a key.
C13_Witness ==
  /\ last.conn = 1
  /\ last.req = Req(<<B(QUIT)>>)
  /\ ~open[1] /\ open[2]
  /\ kv # EmptyKv

\* C14: SHUTDOWN is answered by no frame and stops the listener: once it was
\* served, no connection is accepted and no request is served on any connection.
C14_ShutdownStopsListener ==
  [][/\ (Served /\ last'.req = Req(<<B(SHUTDOWN)>>)) => last'.sent = <<>>
     /\ (last.conn # 0 /\ last.req = Req(<<B(SHUTDOWN)>>))
          => /\ ~Served
             /\ \A c \in Conns : open'[c] => open[c]]_vars

\* C15: every request that is decoded and either succeeds or fails with
\* CommandError is answered by exactly one frame, and the handler goes on to read
\* the next request of the connection.
C15_OneResponsePerRequest ==
  [][(/\ Served
      /\ last'.req.kind = "return"
      /\ (last'.call.kind = "return" \/ RaisedCommandError(last'.call)))
       => /\ IsOneFrame(last'.sent)
          /\ open'[last'.conn]]_vars

\* C16: a frame whose length, count or integer field is no decimal number fails
\* with ProtocolError, is answered by an Error frame, and closes that connection
\* alone; Keyspace, Schedule and the other connections are as before.
C16_MalformedAnswered ==
  [][(Served /\ last'.req \in {Decoded(f).res : f \in MalformedFrames})
       => /\ last'.req = Raise("ProtocolError")
          /\ IsErrorFrame(last'.sent)
          /\ ~open'[last'.conn]
          /\ kv' = kv /\ schedule' = schedule
          /\ OthersUntouched]_vars

\* C17: every key of the Keyspace is a Bytes value, whatever the types of the
\* arguments of the requests served and whatever snapshot was restored or merged.
C17_KeysAreBytes == \A key \in DOMAIN kv : key.t = "bytes"

\* C18: a bulk-string frame of declared length N >= 0 whose stream ends before
\* the N payload bytes and the closing CRLF fails with an error that is not the
\* end-of-stream signal, and yields no Bytes value; a stream that ends before
\* the first byte of a frame raises EOFError.
C18_TruncatedBulkRaises ==
  /\ (phase = "done" /\ sent.kind = "bulk" /\ sent.len >= 0
        /\ Len(sent.payload) < sent.len + 2)
       => /\ dec.res.kind = "raise"
          /\ dec.res.exc # "EOFError"
  /\ (phase = "done" /\ wire = <<>>) => dec.res = Raise("EOFError")

\* C19: a line whose first byte is no type tag is decoded as the plain string of
\* the line and split at whitespace: served from any state, the line 'CMD a b'
\* has the outcome, the response bytes and the resulting Keyspace, Schedule and
\* files that the array request [CMD, a, b] has from that state.
C19_InlineEqualsCanonical ==
  [][\A p \in InlinePairs :
       (Served /\ last'.req = Ret(B(p.line)))
         => LET r == get_response(Resolved(Frame(p.items)), kv, schedule, disk, FILE_NAME)
                resp == ResponseOf(r.out)
            IN /\ Decoded(Line(p.line)).res = Ret(B(p.line))
               /\ Decoded(Frame(p.items)).res = Req(p.items)
               /\ last'.call = r.out
               /\ last'.out = resp
               /\ last'.sent = (IF resp.kind = "return" THEN WriteValue(resp.val) ELSE <<>>)
               /\ kv' = r.kv
               /\ schedule' = r.schedule
               /\ disk' = r.disk]_vars

\* The line 'MSET a 2 b 1' was served: it answered 2 and stored both pairs.
C19_Witness ==
  /\ last.req = Ret(B(<<"M", "S", "E", "T", " ", "a", " ", "2", " ", "b", " ", "1">>))
  /\ last.call = Ret(I(2))
  /\ kv = [k \in KeyArgs |-> IF k = KeyA THEN Val2 ELSE Val1]

\* C20: with two connections on one store every command takes effect as a
\* whole: the Keyspace is always what the writes served so far leave when each
\* is applied entire, in the order served, whichever connection sent them, and
\* every GET and MGET answers from that Keyspace: never some of the pairs of
\* one MSET, never a Keyspace that a FLUSH has half cleared.
C20_CommandsAtomic ==
  /\ DOMAIN kv \subseteq KeyArgs
  /\ \A key \in KeyArgs :
       IF LastWrite(log, key) = Null THEN key \notin DOMAIN kv
       ELSE key \in DOMAIN kv /\ kv[key] = LastWrite(log, key)
  /\ \A keys \in MGetArgLists :
       (last.conn # 0 /\ last.req = Req(<<B(MGET)>> \o keys))
         => last.call = Ret(Arr([i \in 1..Len(keys) |-> LastWrite(log, keys[i])]))
  /\ \A key \in KeyArgs :
       (last.conn # 0 /\ last.req = Req(<<B(GET), key>>))
         => last.call = Ret(LastWrite(log, key))

\* Connection 2 read with MGET both pairs of the MSET connection 1 had sent,
\* after a FLUSH that connection 2 had sent itself.
C20_Witness ==
  /\ last.conn = 2
  /\ last.req = Req(<<B(MGET), KeyA, KeyB>>)
  /\ last.call = Ret(Arr(<<Val2, Val1>>))
  /\ Len(log) >= 2
  /\ log[Len(log)] = <<MSET, <<KeyA, Val2, KeyB, Val1>>, 1>>
  /\ log[Len(log) - 1] = <<FLUSH, <<>>, 2>>

====
